---- MODULE Spec2Model ----
(***************************************************************************)
(* Book Review API: books, reviews, the derived rating aggregates of a     *)
(* book, and the request handlers of routes/books, routes/reviews and      *)
(* routes/search over the two collections.                                 *)
(*                                                                         *)
(* A rating average is kept in tenths (45 is 4.5).  Text is a sequence of  *)
(* one-character strings.  A request body is a record that holds exactly   *)
(* the fields the caller sent.                                             *)
(***************************************************************************)
EXTENDS Integers, Sequences, FiniteSets, TLC

VARIABLES books, reviews, nextReviewId, pc, req, doc, resp

vars == <<books, reviews, nextReviewId, pc, req, doc, resp>>

\* ------------------------------------------------------------------ bounds
MaxBooks == 2
MaxUsers == 2
MaxProcs == 2
MaxReviewIds == 2
MaxPage == 3
MaxTotal == 25

\* ------------------------------------------------------- program constants
PageDefault == 1
LimitDefault == 10
LimitMin == 1
LimitMax == 50
YearMin == 1000
CurrentYear == 2026
RatingMin == 1
RatingMax == 5
CommentMin == 10
CommentMax == 1000
TitleMax == 200
AuthorMax == 100
GenreMax == 50
DescriptionMax == 2000
AverageMax == 50

Users == 1..MaxUsers
Procs == 1..MaxProcs
BookIds == 1..MaxBooks
ReviewIds == 1..MaxReviewIds

\* -------------------------------------------------------------------- text
UpperCase == <<"A","B","C","D","E","F","G","H","I","J","K","L","M",
               "N","O","P","Q","R","S","T","U","V","W","X","Y","Z">>
LowerCase == <<"a","b","c","d","e","f","g","h","i","j","k","l","m",
               "n","o","p","q","r","s","t","u","v","w","x","y","z">>
Digits == {"0","1","2","3","4","5","6","7","8","9"}

ToLower(c) ==
  IF \E i \in 1..Len(UpperCase) : UpperCase[i] = c
  THEN LowerCase[CHOOSE i \in 1..Len(UpperCase) : UpperCase[i] = c]
  ELSE c

LowerText(s) == [i \in 1..Len(s) |-> ToLower(s[i])]

\* .trim(): leading and trailing blanks removed
Trim(s) ==
  LET keep == {i \in 1..Len(s) : s[i] # " "}
  IN  IF keep = {} THEN <<>>
      ELSE LET lo == CHOOSE i \in keep : \A j \in keep : i <= j
               hi == CHOOSE i \in keep : \A j \in keep : j <= i
           IN  SubSeq(s, lo, hi)

\* t occurs in s as a contiguous run
ContainsText(s, t) ==
  \E i \in 0..(Len(s) - Len(t)) : SubSeq(s, i + 1, i + Len(t)) = t

\* { $regex: pattern, $options: 'i' } for a pattern of literal characters
RegexMatch(pattern, text) == ContainsText(LowerText(text), LowerText(pattern))

DigitCount(s) == Cardinality({i \in 1..Len(s) : s[i] \in Digits})

\* /^(?=(?:\D*\d){10}(?:(?:\D*\d){3})?$)[\d-]+$/
IsbnMatches(s) ==
  /\ Len(s) >= 1
  /\ \A i \in 1..Len(s) : s[i] \in Digits \cup {"-"}
  /\ DigitCount(s) \in {10, 13}
  /\ s[Len(s)] \in Digits

\* ------------------------------------------------------------- input data
DuneII == <<"D","u","n","e"," ","I","I">>
Atlas == <<"A","t","l","a","s">>
Herbert == <<"H","e","r","b","e","r","t">>
Duneworth == <<"D","u","n","e","w","o","r","t","h">>
Rand == <<"R","a","n","d">>
SciFi == <<"S","c","i","F","i">>
Novel == <<"N","o","v","e","l">>
Blank == <<" ">>
Isbn10 == <<"0","3","0","6","4","0","6","1","5","2">>

Text10 == <<"g","o","o","d"," ","r","e","a","d","s">>
Text11 == <<"n","o","t"," ","s","o"," ","g","o","o","d">>
Text3 == <<"m","e","h">>
NoIsbn == <<>>

Has(r, f) == f \in DOMAIN r

\* ------------------------------------------------------------- collections
\* The documents of a collection newest first: .sort({ createdAt: -1 }).
\* Identifiers are handed out in creation order.
RECURSIVE SortCreatedDesc(_)
SortCreatedDesc(S) ==
  IF S = {} THEN <<>>
  ELSE LET m == CHOOSE x \in S : \A y \in S : y.id <= x.id
       IN  <<m>> \o SortCreatedDesc(S \ {m})

FindById(coll, id) == {d \in coll : d.id = id}

Min(a, b) == IF a <= b THEN a ELSE b

\* The skip of a page counted from 0
SkipFromZero(page, limit) == page * limit

\* (page - 1) * limit
Skip(page, limit) == (page - 1) * limit

\* Math.ceil(total / limit)
TotalPages(total, limit) == (total + limit - 1) \div limit

\* .skip(skip).limit(limit) on the sorted result
PageOf(sorted, page, limit) ==
  SubSeq(sorted, Skip(page, limit) + 1, Min(Skip(page, limit) + limit, Len(sorted)))

\* total is the block's totalBooks, totalReviews or totalResults
Pagination(page, total, limit) ==
  [currentPage |-> page,
   totalPages  |-> TotalPages(total, limit),
   total       |-> total,
   hasNext     |-> page < TotalPages(total, limit),
   hasPrev     |-> page > 1]

\* parseInt(req.query.page) || 1 and parseInt(req.query.limit) || 10
PageParam(q) == IF Has(q, "page") /\ q.page # 0 THEN q.page ELSE PageDefault
LimitParam(q) == IF Has(q, "limit") /\ q.limit # 0 THEN q.limit ELSE LimitDefault

\* query('page').optional().isInt({ min: 1 }), query('limit').optional().isInt({ min: 1, max: 50 })
PagingErrors(q) ==
  (IF Has(q, "page") /\ q.page < 1 THEN {"page"} ELSE {})
  \cup (IF Has(q, "limit") /\ (q.limit < LimitMin \/ q.limit > LimitMax) THEN {"limit"} ELSE {})

Reply(status, body) == [status |-> status, body |-> body]
NoReply == [status |-> 0, body |-> [none |-> TRUE]]
NoReq == [op |-> "none"]
NoDoc == [none |-> TRUE]

\* -------------------------------------------------------------- models/Book
\* body('title').trim().notEmpty() ... body('isbn').optional().matches(...)
BookBodyErrors(body) ==
  (IF Has(body, "title") /\ Trim(body.title) # <<>> THEN {} ELSE {"title"})
  \cup (IF Has(body, "author") /\ Trim(body.author) # <<>> THEN {} ELSE {"author"})
  \cup (IF Has(body, "genre") /\ Trim(body.genre) # <<>> THEN {} ELSE {"genre"})
  \cup (IF Has(body, "description") /\ Trim(body.description) # <<>>
        THEN {} ELSE {"description"})
  \cup (IF Has(body, "publishedYear") /\ body.publishedYear >= YearMin
           /\ body.publishedYear <= CurrentYear
        THEN {} ELSE {"publishedYear"})
  \cup (IF Has(body, "isbn") /\ ~IsbnMatches(body.isbn) THEN {"isbn"} ELSE {})

\* const bookData = { ...req.body, addedBy: req.user._id }
BookData(body, user) ==
  [f \in DOMAIN body \cup {"addedBy"} |-> IF f = "addedBy" THEN user ELSE body[f]]

\* new Book(bookData): the schema's paths, trimmed, with the schema's defaults
NewBook(data, id) ==
  [id            |-> id,
   title         |-> Trim(data.title),
   author        |-> Trim(data.author),
   genre         |-> Trim(data.genre),
   description   |-> Trim(data.description),
   publishedYear |-> data.publishedYear,
   isbn          |-> IF Has(data, "isbn") THEN Trim(data.isbn) ELSE NoIsbn,
   averageRating |-> IF Has(data, "averageRating") THEN data.averageRating ELSE 0,
   totalReviews  |-> IF Has(data, "totalReviews") THEN data.totalReviews ELSE 0,
   addedBy       |-> data.addedBy]

\* The schema's validators, run by save()
BookSchemaErrors(b) ==
  (IF b.title = <<>> \/ Len(b.title) > TitleMax THEN {"title"} ELSE {})
  \cup (IF b.author = <<>> \/ Len(b.author) > AuthorMax THEN {"author"} ELSE {})
  \cup (IF b.genre = <<>> \/ Len(b.genre) > GenreMax THEN {"genre"} ELSE {})
  \cup (IF b.description = <<>> \/ Len(b.description) > DescriptionMax
        THEN {"description"} ELSE {})
  \cup (IF b.publishedYear < YearMin \/ b.publishedYear > CurrentYear
        THEN {"publishedYear"} ELSE {})
  \cup (IF b.isbn # NoIsbn /\ ~IsbnMatches(b.isbn) THEN {"isbn"} ELSE {})
  \cup (IF b.averageRating < 0 \/ b.averageRating > AverageMax
        THEN {"averageRating"} ELSE {})
  \cup (IF b.totalReviews < 0 THEN {"totalReviews"} ELSE {})

\* isbn: { unique: true, sparse: true }
IsbnTaken(coll, b) == b.isbn # NoIsbn /\ \E o \in coll : o.isbn = b.isbn

\* Math.round(avg * 10) / 10 in tenths, avg = sum / count: halves round up.
\* The products are exact in floating point for the counts reached here.
RoundedAverage(sum, count) == (20 * sum + count) \div (2 * count)

RECURSIVE SumRatings(_)
SumRatings(S) ==
  IF S = {} THEN 0
  ELSE LET r == CHOOSE x \in S : TRUE IN r.rating + SumRatings(S \ {r})

\* Review.aggregate([{ $match: { book } }, { $group: { $avg, $sum: 1 } }]) and the
\* values updateAverageRating assigns from it
Aggregate(coll, bookId) ==
  LET mine == {r \in coll : r.book = bookId}
  IN  IF mine # {}
      THEN [averageRating |-> RoundedAverage(SumRatings(mine), Cardinality(mine)),
            totalReviews  |-> Cardinality(mine)]
      ELSE [averageRating |-> 0, totalReviews |-> 0]

\* ------------------------------------------------------------ models/Review
\* body('rating').isInt({ min: 1, max: 5 }), body('comment').trim().isLength(...)
RatingOk(r) == r >= RatingMin /\ r <= RatingMax
CommentOk(c) == Len(Trim(c)) >= CommentMin /\ Len(Trim(c)) <= CommentMax

SubmitBodyErrors(body) ==
  (IF Has(body, "rating") /\ RatingOk(body.rating) THEN {} ELSE {"rating"})
  \cup (IF Has(body, "comment") /\ CommentOk(body.comment) THEN {} ELSE {"comment"})

\* the same checks behind .optional()
UpdateBodyErrors(body) ==
  (IF Has(body, "rating") /\ ~RatingOk(body.rating) THEN {"rating"} ELSE {})
  \cup (IF Has(body, "comment") /\ ~CommentOk(body.comment) THEN {"comment"} ELSE {})

\* A pre-check by user alone
ExistingReviewOfUser(coll, bookId, user) == {r \in coll : r.user = user}

\* Review.findOne({ book, user })
ExistingReview(coll, bookId, user) == {r \in coll : r.book = bookId /\ r.user = user}

\* A collection without the index
NoUniqueIndex(coll, bookId, user) == FALSE

\* reviewSchema.index({ book: 1, user: 1 }, { unique: true })
UniqueIndexViolated(coll, bookId, user) ==
  \E r \in coll : r.book = bookId /\ r.user = user

\* No owner check
AnyoneIsOwner(review, user) == TRUE

\* review.user.toString() !== req.user._id.toString()
IsOwner(review, user) == review.user = user

\* The document middleware the Review schema registers: post('save'), post('remove')
ReviewPostHooks == {"save", "remove"}

\* The model operation DELETE /reviews/:id deletes with: Review.findByIdAndDelete,
\* a query ('findOneAndDelete'), not the document's remove()
DeleteOperation == "findOneAndDelete"

\* ------------------------------------------------------------------ inputs
ValidBook1 == [title |-> DuneII, author |-> Herbert, genre |-> SciFi,
               description |-> Text10, publishedYear |-> 1965, isbn |-> Isbn10]
ValidBook2 == [title |-> Atlas, author |-> Duneworth, genre |-> Novel,
               description |-> Text10, publishedYear |-> 1957, isbn |-> Isbn10]
ValidBook3 == [title |-> Atlas, author |-> Rand, genre |-> Novel,
               description |-> Text11, publishedYear |-> 1957]

BookBodies ==
  { ValidBook1, ValidBook2,
    [title |-> Atlas, author |-> Rand, genre |-> Novel, description |-> Text11,
     publishedYear |-> 1957, averageRating |-> 45, totalReviews |-> 7,
     addedBy |-> MaxUsers],
    [title |-> Atlas, author |-> Rand, genre |-> Novel, description |-> Text11,
     publishedYear |-> 1957, averageRating |-> 90],
    [title |-> Blank, author |-> Rand, genre |-> Novel, description |-> Text11,
     publishedYear |-> 999, isbn |-> Atlas],
    [title |-> Atlas] }

SubmitBodies ==
  { [rating |-> 2, comment |-> Text10], [rating |-> 4, comment |-> Text10],
    [rating |-> 6, comment |-> Text10], [rating |-> 4, comment |-> Text3],
    [comment |-> Text10] }

UpdateBodies ==
  { [rating |-> 2], [rating |-> 4], [rating |-> 4, comment |-> Text11], [rating |-> 0],
    [x \in {} |-> 0] }

ListQueries ==
  { [x \in {} |-> 0], [page |-> 2, limit |-> 1], [author |-> <<"d","U","n","e">>],
    [author |-> <<"r","a">>, genre |-> <<"n","O","V">>], [limit |-> 0],
    [page |-> 0, limit |-> 51] }

DetailQueries == { [x \in {} |-> 0], [page |-> 2, limit |-> 1] }

SearchQueries ==
  { [q |-> <<"d","u","n","e">>], [q |-> <<"A","T">>, page |-> 1, limit |-> 1],
    [q |-> Blank], [page |-> 1] }

\* -------------------------------------------------------------------- state
Init ==
  /\ books = {}
  /\ reviews = {}
  /\ nextReviewId = 1
  /\ pc = [p \in Procs |-> "idle"]
  /\ req = [p \in Procs |-> NoReq]
  /\ doc = [p \in Procs |-> NoDoc]
  /\ resp = [p \in Procs |-> NoReply]

\* The handler of p ends with the response r.
Respond(p, r) ==
  /\ pc' = [pc EXCEPT ![p] = "done"]
  /\ resp' = [resp EXCEPT ![p] = r]

\* The handler of p suspends at its next await.
Suspend(p, label) ==
  /\ pc' = [pc EXCEPT ![p] = label]
  /\ resp' = resp

ServerError(msg) == Reply(500, [error |-> msg])

\* ------------------------------------------------------------ routes/books
\* POST /books
AddBook(p, user, body) ==
  /\ pc[p] = "idle"
  /\ Cardinality(books) < MaxBooks
  /\ LET errors == BookBodyErrors(body)
         book == NewBook(BookData(body, user), Cardinality(books) + 1)
         saved == errors = {} /\ BookSchemaErrors(book) = {} /\ ~IsbnTaken(books, book)
     IN  /\ books' = IF saved THEN books \cup {book} ELSE books
         /\ Respond(p, IF errors # {} THEN Reply(400, [errors |-> errors])
                       ELSE IF saved
                            THEN Reply(201, [message |-> "Book added successfully",
                                             book |-> book])
                            ELSE ServerError("Server error while adding book"))
  /\ req' = [req EXCEPT ![p] = [op |-> "AddBook", user |-> user, body |-> body]]
  /\ UNCHANGED <<reviews, nextReviewId, doc>>

\* The filter GET /books builds from req.query
BookFilter(q, b) ==
  /\ (Has(q, "author") /\ Trim(q.author) # <<>>) => RegexMatch(Trim(q.author), b.author)
  /\ (Has(q, "genre") /\ Trim(q.genre) # <<>>) => RegexMatch(Trim(q.genre), b.genre)

\* GET /books
ListBooks(p, q) ==
  /\ pc[p] = "idle"
  /\ LET errors == PagingErrors(q)
         page == PageParam(q)
         limit == LimitParam(q)
         found == {b \in books : BookFilter(q, b)}
     IN  Respond(p, IF errors # {} THEN Reply(400, [errors |-> errors])
                    ELSE Reply(200, [books |-> PageOf(SortCreatedDesc(found), page, limit),
                                     pagination |->
                                       Pagination(page, Cardinality(found), limit)]))
  /\ req' = [req EXCEPT ![p] = [op |-> "ListBooks", query |-> q]]
  /\ UNCHANGED <<books, reviews, nextReviewId, doc>>

\* GET /books/:id
GetBookDetail(p, id, q) ==
  /\ pc[p] = "idle"
  /\ LET page == PageParam(q)
         limit == LimitParam(q)
         found == {r \in reviews : r.book = id}
     IN  Respond(p, IF FindById(books, id) = {}
                    THEN Reply(404, [error |-> "Book not found"])
                    ELSE Reply(200, [book |-> CHOOSE b \in FindById(books, id) : TRUE,
                                     reviews |-> PageOf(SortCreatedDesc(found), page, limit),
                                     pagination |->
                                       Pagination(page, Cardinality(found), limit)]))
  /\ req' = [req EXCEPT ![p] = [op |-> "GetBookDetail", book |-> id, query |-> q]]
  /\ UNCHANGED <<books, reviews, nextReviewId, doc>>

\* ----------------------------------------------------------- routes/search
\* const Book = require('../models/Review'): the collection GET /search queries
SearchCollection == reviews

\* { $or: [{ title: { $regex, $options: 'i' } }, { author: { $regex, $options: 'i' } }] }
\* A document without the field does not match (the filter as the database
\* evaluates it).
SearchFilter(text, d) ==
  \/ Has(d, "title") /\ RegexMatch(text, d.title)
  \/ Has(d, "author") /\ RegexMatch(text, d.author)

\* GET /search
Search(p, q) ==
  /\ pc[p] = "idle"
  /\ LET errors == (IF Has(q, "q") /\ Trim(q.q) # <<>> THEN {} ELSE {"q"})
                     \cup PagingErrors(q)
         page == PageParam(q)
         limit == LimitParam(q)
         found == {d \in SearchCollection : SearchFilter(Trim(q.q), d)}
     IN  Respond(p, IF errors # {} THEN Reply(400, [errors |-> errors])
                    ELSE Reply(200, [query |-> Trim(q.q),
                                     books |-> PageOf(SortCreatedDesc(found), page, limit),
                                     pagination |->
                                       Pagination(page, Cardinality(found), limit)]))
  /\ req' = [req EXCEPT ![p] = [op |-> "Search", query |-> q]]
  /\ UNCHANGED <<books, reviews, nextReviewId, doc>>

\* ---------------------------------------------------------- review requests
\* Requests that will still insert a review: their identifiers are reserved.
PendingInserts ==
  Cardinality({p \in Procs : pc[p] \in {"findExisting", "insertReview"}})

\* The response of a review mutation whose save and hooks have completed
Completed(r) ==
  IF r.op = "SubmitReview"
  THEN Reply(201, [message |-> "Review submitted successfully"])
  ELSE IF r.op = "UpdateReview"
       THEN Reply(200, [message |-> "Review updated successfully"])
       ELSE Reply(200, [message |-> "Review deleted successfully"])

\* After the model operation `operation` on a review of p: the registered post
\* hook runs next, or the handler responds.
AfterOperation(p, operation) ==
  IF operation \in ReviewPostHooks
  THEN Suspend(p, "hookFindBook")
  ELSE Respond(p, Completed(req[p]))

\* POST /books/:id/reviews, to its first query: validation, Book.findById
SubmitReview(p, user, bookId, body) ==
  /\ pc[p] = "idle"
  /\ nextReviewId + PendingInserts <= MaxReviewIds
  /\ LET errors == SubmitBodyErrors(body)
     IN  IF errors # {} THEN Respond(p, Reply(400, [errors |-> errors]))
         ELSE IF FindById(books, bookId) = {}
              THEN Respond(p, Reply(404, [error |-> "Book not found"]))
              ELSE Suspend(p, "findExisting")
  /\ req' = [req EXCEPT ![p] = [op |-> "SubmitReview", user |-> user, book |-> bookId,
                                body |-> body]]
  /\ UNCHANGED <<books, reviews, nextReviewId, doc>>

\* Review.findOne({ book, user }) and new Review({...})
SubmitReview_FindExisting(p) ==
  /\ pc[p] = "findExisting"
  /\ IF ExistingReview(reviews, req[p].book, req[p].user) # {}
     THEN /\ Respond(p, Reply(400, [error |-> "You have already reviewed this book"]))
          /\ doc' = doc
     ELSE /\ Suspend(p, "insertReview")
          /\ doc' = [doc EXCEPT ![p] =
                       [review |-> [rating |-> req[p].body.rating,
                                    comment |-> Trim(req[p].body.comment),
                                    book |-> req[p].book, user |-> req[p].user]]]
  /\ UNCHANGED <<books, reviews, nextReviewId, req>>

\* review.save() of a new document: the insert, under the unique index
SubmitReview_Save(p) ==
  /\ pc[p] = "insertReview"
  /\ IF UniqueIndexViolated(reviews, doc[p].review.book, doc[p].review.user)
     THEN /\ Respond(p, ServerError("Server error while submitting review"))
          /\ UNCHANGED <<reviews, nextReviewId, doc>>
     ELSE LET review == [id |-> nextReviewId, rating |-> doc[p].review.rating,
                         comment |-> doc[p].review.comment, book |-> doc[p].review.book,
                         user |-> doc[p].review.user]
          IN  /\ reviews' = reviews \cup {review}
              /\ nextReviewId' = nextReviewId + 1
              /\ doc' = [doc EXCEPT ![p] = [review |-> review]]
              /\ AfterOperation(p, "save")
  /\ UNCHANGED <<books, req>>

\* ---------------------------------------------------------- routes/reviews
\* The paths review.rating = ..., review.comment = ... leave modified: a path
\* assigned the value it already holds is not written by save().
ModifiedPaths(review, body) ==
  [f \in {g \in {"rating", "comment"} :
             /\ Has(body, g)
             /\ (IF g = "rating" THEN body.rating # review.rating
                 ELSE Trim(body.comment) # review.comment)}
     |-> IF f = "rating" THEN body.rating ELSE Trim(body.comment)]

\* $set of the modified paths on the stored document
ApplySet(stored, set) ==
  [f \in DOMAIN stored |-> IF f \in DOMAIN set THEN set[f] ELSE stored[f]]

\* PUT /reviews/:id, to its first query: validation, Review.findById, the owner check
UpdateReview(p, user, reviewId, body) ==
  /\ pc[p] = "idle"
  /\ LET errors == UpdateBodyErrors(body)
         found == FindById(reviews, reviewId)
         review == CHOOSE r \in found : TRUE
     IN  IF errors # {}
         THEN Respond(p, Reply(400, [errors |-> errors])) /\ doc' = doc
         ELSE IF found = {}
              THEN Respond(p, Reply(404, [error |-> "Review not found"])) /\ doc' = doc
              ELSE IF ~IsOwner(review, user)
                   THEN /\ Respond(p, Reply(403,
                                     [error |-> "You can only update your own reviews"]))
                        /\ doc' = doc
                   ELSE /\ Suspend(p, "updateReview")
                        /\ doc' = [doc EXCEPT ![p] =
                                     [review |-> ApplySet(review, ModifiedPaths(review, body)),
                                      set |-> ModifiedPaths(review, body)]]
  /\ req' = [req EXCEPT ![p] = [op |-> "UpdateReview", user |-> user,
                                review |-> reviewId, body |-> body]]
  /\ UNCHANGED <<books, reviews, nextReviewId>>

\* review.save() of a loaded document: the update by _id, which fails when the
\* document is gone (DocumentNotFoundError)
UpdateReview_Save(p) ==
  /\ pc[p] = "updateReview"
  /\ LET found == FindById(reviews, doc[p].review.id)
     IN  IF found = {}
         THEN /\ Respond(p, ServerError("Server error while updating review"))
              /\ reviews' = reviews
         ELSE /\ reviews' = {IF r.id = doc[p].review.id THEN ApplySet(r, doc[p].set) ELSE r
                               : r \in reviews}
              /\ AfterOperation(p, "save")
  /\ UNCHANGED <<books, nextReviewId, req, doc>>

\* DELETE /reviews/:id, to its first query: Review.findById, the owner check
DeleteReview(p, user, reviewId) ==
  /\ pc[p] = "idle"
  /\ LET found == FindById(reviews, reviewId)
         review == CHOOSE r \in found : TRUE
     IN  IF found = {}
         THEN Respond(p, Reply(404, [error |-> "Review not found"])) /\ doc' = doc
         ELSE IF ~IsOwner(review, user)
              THEN /\ Respond(p, Reply(403,
                                [error |-> "You can only delete your own reviews"]))
                   /\ doc' = doc
              ELSE /\ Suspend(p, "deleteReview")
                   /\ doc' = [doc EXCEPT ![p] = [review |-> review]]
  /\ req' = [req EXCEPT ![p] = [op |-> "DeleteReview", user |-> user, review |-> reviewId]]
  /\ UNCHANGED <<books, reviews, nextReviewId>>

\* Review.findByIdAndDelete(req.params.id)
DeleteReview_Delete(p) ==
  /\ pc[p] = "deleteReview"
  /\ reviews' = reviews \ FindById(reviews, req[p].review)
  /\ AfterOperation(p, DeleteOperation)
  /\ UNCHANGED <<books, nextReviewId, req, doc>>

\* ------------------------------------------- the hooks and the aggregator
\* post('save') / post('remove'): const book = await Book.findById(this.book)
PostHook_FindBook(p) ==
  /\ pc[p] = "hookFindBook"
  /\ LET found == FindById(books, doc[p].review.book)
     IN  IF found = {}
         THEN Respond(p, Completed(req[p])) /\ doc' = doc
         ELSE /\ Suspend(p, "aggregate")
              /\ doc' = [doc EXCEPT ![p] =
                           [review |-> doc[p].review, book |-> CHOOSE b \in found : TRUE]]
  /\ UNCHANGED <<books, reviews, nextReviewId, req>>

\* updateAverageRating: await Review.aggregate(...), then the two assignments
UpdateAverageRating_Aggregate(p) ==
  /\ pc[p] = "aggregate"
  /\ doc' = [doc EXCEPT ![p] =
               [review |-> doc[p].review, book |-> doc[p].book,
                stats |-> Aggregate(reviews, doc[p].book.id)]]
  /\ Suspend(p, "saveBook")
  /\ UNCHANGED <<books, reviews, nextReviewId, req>>

\* The paths of the loaded book that the assignments changed
BookModifiedPaths(loaded, stats) ==
  [f \in {g \in {"averageRating", "totalReviews"} : stats[g] # loaded[g]} |-> stats[f]]

\* updateAverageRating: await this.save(), then the handler's response
UpdateAverageRating_Save(p) ==
  /\ pc[p] = "saveBook"
  /\ books' = {IF b.id = doc[p].book.id
               THEN ApplySet(b, BookModifiedPaths(doc[p].book, doc[p].stats)) ELSE b
               : b \in books}
  /\ Respond(p, Completed(req[p]))
  /\ UNCHANGED <<reviews, nextReviewId, req, doc>>

\* The response is sent; the handler's locals are gone.
Complete(p) ==
  /\ pc[p] = "done"
  /\ pc' = [pc EXCEPT ![p] = "idle"]
  /\ req' = [req EXCEPT ![p] = NoReq]
  /\ doc' = [doc EXCEPT ![p] = NoDoc]
  /\ resp' = [resp EXCEPT ![p] = NoReply]
  /\ UNCHANGED <<books, reviews, nextReviewId>>

\* ----------------------------------------------------------- specifications
MutateStep(p, submitBodies, updateBodies) ==
  \/ \E u \in Users, b \in BookIds, body \in submitBodies : SubmitReview(p, u, b, body)
  \/ SubmitReview_FindExisting(p)
  \/ SubmitReview_Save(p)
  \/ \E u \in Users, r \in ReviewIds, body \in updateBodies : UpdateReview(p, u, r, body)
  \/ UpdateReview_Save(p)
  \/ PostHook_FindBook(p)
  \/ UpdateAverageRating_Aggregate(p)
  \/ UpdateAverageRating_Save(p)
  \/ Complete(p)

DeleteStep(p) ==
  \/ \E u \in Users, r \in ReviewIds : DeleteReview(p, u, r)
  \/ DeleteReview_Delete(p)

BookStep(p) ==
  \/ \E u \in Users, body \in BookBodies : AddBook(p, u, body)
  \/ \E q \in ListQueries : ListBooks(p, q)
  \/ \E b \in BookIds, q \in DetailQueries : GetBookDetail(p, b, q)
  \/ \E q \in SearchQueries : Search(p, q)

\* Requests handled one at a time, on a store that starts empty
SerialProc == CHOOSE p \in Procs : \A q \in Procs : p <= q

Next ==
  \/ BookStep(SerialProc)
  \/ MutateStep(SerialProc, SubmitBodies, UpdateBodies)
  \/ DeleteStep(SerialProc)

Spec == Init /\ [][Next]_vars

\* A body without its isbn
WithoutIsbn(body) == [f \in DOMAIN body \ {"isbn"} |-> body[f]]

\* The store after n accepted POST /books requests of the first user
Catalogue == <<WithoutIsbn(ValidBook1), WithoutIsbn(ValidBook2), ValidBook3>>

SeededBooks(n) ==
  {NewBook(BookData(Catalogue[((i - 1) % Len(Catalogue)) + 1], SerialProc), i) : i \in 1..n}

\* Review requests handled concurrently on one stored book: every await of a
\* handler is a point where another handler may run.
InitConc ==
  /\ books = SeededBooks(Len(<<ValidBook1>>))
  /\ reviews = {}
  /\ nextReviewId = 1
  /\ pc = [p \in Procs |-> "idle"]
  /\ req = [p \in Procs |-> NoReq]
  /\ doc = [p \in Procs |-> NoDoc]
  /\ resp = [p \in Procs |-> NoReply]

ConcSubmitBodies == {b \in SubmitBodies : SubmitBodyErrors(b) = {}}
ConcUpdateBodies == {b \in UpdateBodies : DOMAIN b = {"rating"} /\ UpdateBodyErrors(b) = {}}

ConcNext ==
  \E p \in Procs : MutateStep(p, ConcSubmitBodies, ConcUpdateBodies) \/ DeleteStep(p)

SpecConc == InitConc /\ [][ConcNext]_vars

\* The same without DELETE /reviews/:id
MutNext == \E p \in Procs : MutateStep(p, ConcSubmitBodies, ConcUpdateBodies)

SpecMut == InitConc /\ [][MutNext]_vars

\* GET /books over stores of 0..MaxTotal books
PageQueries ==
  {[f \in fs |-> CASE f = "page" -> pg [] f = "limit" -> lm [] f = "author" -> au] :
     fs \in SUBSET {"page", "limit", "author"}, pg \in 1..MaxPage, lm \in LimitMin..LimitMax,
     au \in {<<"d","U","n","e">>, <<"R","A">>}}

InitPage ==
  /\ \E n \in 0..MaxTotal : books = SeededBooks(n)
  /\ reviews = {}
  /\ nextReviewId = 1
  /\ pc = [p \in Procs |-> "idle"]
  /\ req = [p \in Procs |-> NoReq]
  /\ doc = [p \in Procs |-> NoDoc]
  /\ resp = [p \in Procs |-> NoReply]

PageNext == (\E q \in PageQueries : ListBooks(SerialProc, q)) \/ Complete(SerialProc)

SpecPage == InitPage /\ [][PageNext]_vars

\* ------------------------------------------------------------------ claims
ReviewsOf(bookId) == {r \in reviews : r.book = bookId}

\* The mean of the ratings of S in tenths, rounded to the nearest tenth
MeanTenths(S) ==
  IF S = {} THEN 0
  ELSE CHOOSE a \in 0..AverageMax :
         /\ 2 * Cardinality(S) * a <= 20 * SumRatings(S) + Cardinality(S)
         /\ 20 * SumRatings(S) + Cardinality(S) < 2 * Cardinality(S) * (a + 1)

AggregatesMatch(b) ==
  /\ b.averageRating = MeanTenths(ReviewsOf(b.id))
  /\ b.totalReviews = Cardinality(ReviewsOf(b.id))

Succeeded(p, op) ==
  pc[p] = "done" /\ req[p].op = op /\ resp[p].status \in {200, 201}

\* C1: with requests handled one at a time, when a SubmitReview, an UpdateReview
\* or a DeleteReview has succeeded, the stored averageRating of the review's book
\* is the mean of the ratings of its reviews rounded to one decimal, and its
\* totalReviews is their number (both 0 when the book has no review).
C1_AggregatesFollowEveryMutation ==
  \A p \in Procs :
    (Succeeded(p, "SubmitReview") \/ Succeeded(p, "UpdateReview")
       \/ Succeeded(p, "DeleteReview"))
    => \A b \in FindById(books, doc[p].review.book) : AggregatesMatch(b)

\* C2: in every reachable state, whatever the interleaving of the handlers'
\* steps, no two reviews have the same book and the same user.
C2_OneReviewPerUserPerBook ==
  \A r1 \in reviews, r2 \in reviews :
    (r1.book = r2.book /\ r1.user = r2.user) => r1 = r2

\* Two SubmitReview requests of one user for one book both passed the pre-check;
\* one inserted, the insert of the other was refused.
C2_RaceReached ==
  \E p \in Procs, q \in Procs :
    /\ p # q
    /\ req[p].op = "SubmitReview" /\ req[q].op = "SubmitReview"
    /\ req[p].user = req[q].user /\ req[p].book = req[q].book
    /\ pc[p] \in {"hookFindBook", "aggregate", "saveBook", "done"}
    /\ Has(doc[p], "review") /\ doc[p].review \in reviews
    /\ pc[q] = "done" /\ resp[q].status = 500

ValidSubmit(r) ==
  /\ r.op = "SubmitReview"
  /\ Has(r.body, "rating") /\ r.body.rating \in RatingMin..RatingMax
  /\ Has(r.body, "comment") /\ Len(Trim(r.body.comment)) \in CommentMin..CommentMax
  /\ \E b \in books : b.id = r.book

HasReview(bookId, user) == \E r \in reviews : r.book = bookId /\ r.user = user

C3_Step(p) ==
  /\ (pc[p] = "idle" /\ pc'[p] # "idle" /\ ValidSubmit(req'[p]))
       => pc'[p] = "findExisting" /\ reviews' = reviews /\ books' = books
  /\ (pc[p] = "findExisting" /\ HasReview(req[p].book, req[p].user))
       => /\ pc'[p] = "done" /\ resp'[p].status = 400
          /\ resp'[p].body = [error |-> "You have already reviewed this book"]
          /\ reviews' = reviews /\ books' = books
  /\ (pc[p] = "findExisting" /\ ~HasReview(req[p].book, req[p].user))
       => pc'[p] = "insertReview" /\ reviews' = reviews /\ books' = books
  /\ pc[p] = "insertReview"
       => /\ pc'[p] \in {"hookFindBook", "aggregate", "saveBook"}
          /\ reviews \subseteq reviews'
          /\ Cardinality(reviews') = Cardinality(reviews) + 1
          /\ \A r \in reviews' \ reviews :
               /\ r.book = req[p].book /\ r.user = req[p].user
               /\ r.rating = req[p].body.rating
  /\ (req[p].op = "SubmitReview" /\ pc[p] \in {"hookFindBook", "aggregate", "saveBook"})
       => /\ reviews' = reviews
          /\ pc'[p] \in {"aggregate", "saveBook", "done"}
          /\ pc'[p] = "done" => resp'[p].status = 201

\* C3: with requests handled one at a time, a SubmitReview with valid rating and
\* comment by a user who already has a review on the book ends with 400
\* ("already reviewed"), adds no review and changes neither the reviews nor the
\* book; by a user who has none it adds exactly one review, of that user on that
\* book, and ends with 201.
C3_SecondSubmitConflicts == [][\A p \in Procs : C3_Step(p)]_vars

\* A second SubmitReview of a user on a book was refused with 400.
C3_Refused ==
  \E p \in Procs :
    /\ pc[p] = "done" /\ ValidSubmit(req[p]) /\ resp[p].status = 400
    /\ HasReview(req[p].book, req[p].user)
    /\ Cardinality(reviews) = 1

\* A step of p that starts an UpdateReview or a DeleteReview of a stored review
\* whose owner is another user
NonOwnerRequest(p) ==
  /\ pc[p] = "idle" /\ pc'[p] # "idle"
  /\ req'[p].op \in {"UpdateReview", "DeleteReview"}
  /\ \E r \in reviews : r.id = req'[p].review /\ r.user # req'[p].user

InvalidUpdate(r) ==
  /\ r.op = "UpdateReview"
  /\ \/ Has(r.body, "rating") /\ r.body.rating \notin RatingMin..RatingMax
     \/ Has(r.body, "comment") /\ Len(Trim(r.body.comment)) \notin CommentMin..CommentMax

\* A review is changed or removed only by a step of a request of its owner.
OnlyOwnerChanges ==
  \A r \in reviews \ reviews' :
    \E p \in Procs :
      /\ pc'[p] # pc[p]
      /\ req[p].op \in {"UpdateReview", "DeleteReview"}
      /\ req[p].user = r.user /\ req[p].review = r.id

\* C4 as stated: every UpdateReview and DeleteReview of a stored review by a user
\* who is not its owner ends with 403 and leaves the reviews and the books as
\* they were; a review is changed or removed only by a request of its owner.
C4_NonOwnerAlways403 ==
  [][/\ \A p \in Procs :
          NonOwnerRequest(p)
          => /\ pc'[p] = "done" /\ resp'[p].status = 403
             /\ reviews' = reviews /\ books' = books
      /\ OnlyOwnerChanges]_vars

\* C4 amended: such an UpdateReview whose body passes validation, and every such
\* DeleteReview, ends with 403; such an UpdateReview whose body fails validation
\* ends with 400; each leaves the reviews and the books as they were, and a
\* review is changed or removed only by a request of its owner.
C4_NonOwnerRejected ==
  [][/\ \A p \in Procs :
          NonOwnerRequest(p)
          => /\ pc'[p] = "done"
             /\ resp'[p].status = IF InvalidUpdate(req'[p]) THEN 400 ELSE 403
             /\ reviews' = reviews /\ books' = books
      /\ OnlyOwnerChanges]_vars

\* An UpdateReview with a valid body by a user who does not own the review was
\* refused with 403, the review still stored.
C4_Refused ==
  \E p \in Procs :
    /\ pc[p] = "done" /\ req[p].op = "UpdateReview" /\ resp[p].status = 403
    /\ Has(req[p].body, "rating")
    /\ \E r \in reviews : r.id = req[p].review /\ r.user # req[p].user
                            /\ r.rating # req[p].body.rating

\* C5: the book an accepted AddBook stores has averageRating 0, totalReviews 0
\* and addedBy the acting user, whatever else the body carries.
C5_NewBookStartsUnrated ==
  \A p \in Procs :
    (pc[p] = "done" /\ req[p].op = "AddBook" /\ resp[p].status = 201)
    => /\ resp[p].body.book \in books
       /\ resp[p].body.book.averageRating = 0
       /\ resp[p].body.book.totalReviews = 0
       /\ resp[p].body.book.addedBy = req[p].user

\* C6: an AddBook whose fields pass validation and whose isbn is the isbn of a
\* stored book is refused with 400, not with 500.
C6_DuplicateIsbnIsConflict ==
  \A p \in Procs :
    (/\ pc[p] = "done" /\ req[p].op = "AddBook" /\ resp[p].status # 201
     /\ DOMAIN req[p].body = DOMAIN ValidBook1
     /\ BookBodyErrors(req[p].body) = {}
     /\ \E b \in books : b.isbn = Trim(req[p].body.isbn))
    => resp[p].status = 400

\* C7: an accepted Search returns the page of the books whose title or author
\* contains the query, case ignored, newest first, and counts those books.
C7_SearchReturnsMatchingBooks ==
  \A p \in Procs :
    (pc[p] = "done" /\ req[p].op = "Search" /\ resp[p].status = 200)
    => LET q == req[p].query
           found == {b \in books : \/ RegexMatch(Trim(q.q), b.title)
                                   \/ RegexMatch(Trim(q.q), b.author)}
       IN  /\ resp[p].body.books =
                PageOf(SortCreatedDesc(found), PageParam(q), LimitParam(q))
           /\ resp[p].body.pagination.total = Cardinality(found)

Max(a, b) == IF a >= b THEN a ELSE b

\* The place of b among the books S, newest first
PlaceIn(S, b) == Cardinality({o \in S : o.id > b.id}) + 1

RECURSIVE PagesLength(_, _, _)
PagesLength(sorted, limit, k) ==
  IF k = 0 THEN 0 ELSE Len(PageOf(sorted, k, limit)) + PagesLength(sorted, limit, k - 1)

C8_Page(p) ==
  LET q == req[p].query
      page == IF Has(q, "page") THEN q.page ELSE PageDefault
      limit == IF Has(q, "limit") THEN q.limit ELSE LimitDefault
      found == {b \in books : BookFilter(q, b)}
      total == Cardinality(found)
      got == resp[p].body.books
      block == resp[p].body.pagination
      pages == CHOOSE n \in 0..total : n * limit >= total /\ (n - 1) * limit < total
      sorted == SortCreatedDesc(found)
  IN  /\ Len(got) = Min(limit, Max(0, total - (page - 1) * limit))
      /\ \A i \in 1..Len(got) :
           got[i] \in found /\ PlaceIn(found, got[i]) = (page - 1) * limit + i
      /\ block.currentPage = page
      /\ block.total = total
      /\ block.totalPages = pages
      /\ block.hasNext = (page < pages)
      /\ block.hasPrev = (page > 1)
      /\ PagesLength(sorted, limit, pages) = total
      /\ \A k \in 1..pages : \A i \in 1..Len(PageOf(sorted, k, limit)) :
           PlaceIn(found, PageOf(sorted, k, limit)[i]) = (k - 1) * limit + i

\* C8: a ListBooks of page p >= 1 and limit L in 1..50 over T matching books
\* returns min(L, max(0, T - (p-1)*L)) books, those at the places (p-1)*L+1 ..
\* min(p*L, T) newest first, with currentPage p, totalBooks T, totalPages
\* ceil(T/L), hasNext = (p < totalPages) and hasPrev = (p > 1); the pages
\* 1..totalPages hold every matching book once.
C8_ListBooksPagination ==
  \A p \in Procs :
    (pc[p] = "done" /\ req[p].op = "ListBooks" /\ resp[p].status = 200) => C8_Page(p)

\* 25 books, limit 10: page 3 holds the 5 oldest, hasPrev and not hasNext.
C8_LastPageOf25 ==
  \E p \in Procs :
    /\ pc[p] = "done" /\ req[p].op = "ListBooks"
    /\ req[p].query = [page |-> 3, limit |-> 10]
    /\ Cardinality(books) = 25
    /\ Len(resp[p].body.books) = 5
    /\ resp[p].body.books[5].id = 1
    /\ resp[p].body.pagination.hasPrev /\ ~resp[p].body.pagination.hasNext

\* C9: a SubmitReview with valid input for a stored book that does not succeed
\* (it is refused because the user already has a review on the book) ends with
\* 400, never with 500, in every interleaving.
C9_DuplicateIsConflict ==
  \A p \in Procs :
    (pc[p] = "done" /\ ValidSubmit(req[p]) /\ resp[p].status # 201)
    => resp[p].status = 400

\* C10: when no SubmitReview or UpdateReview is in progress, however their steps
\* were interleaved, every book's stored averageRating and totalReviews are those
\* of its reviews.
C10_AggregatesFollowFinalSet ==
  (\A p \in Procs : pc[p] \in {"idle", "done"}) => \A b \in books : AggregatesMatch(b)

====
